---- MODULE Spec2Model ----
(***************************************************************************)
(* Model of the line deduplication tool (final_dedupe_cli.py): the         *)
(* HashStore (hash -> line dictionary persisted as a gzipped pickle) and   *)
(* the DedupeEngine that seeds it, encodes a text file into a stream of    *)
(* 4-byte hash references / 1-byte blank markers and decodes such a stream *)
(* back into lines.  A second specification, SpecCollisionCli, models     *)
(* main() of collision_dedup_cli.py (truncated sha256 hashes) over the     *)
(* same variables.                                                         *)
(*                                                                         *)
(* Bytes are integers 0..255, a hex string is a sequence of hex digits     *)
(* 0..15, an xxh32 object is its 32-bit value split in two 16-bit words    *)
(* <<high, low>> (TLC integers are 32-bit signed).  Lines are the strings  *)
(* the file iterator yields after line.rstrip('\n').                       *)
(***************************************************************************)
EXTENDS Integers, Sequences, FiniteSets, TLC

\* ------------------------------------------------------------------ bounds
MaxLines == 3       \* lines of an input text file
MaxChunks == 3      \* pieces an externally supplied hash file is built from
MaxFiles == 2       \* files matched by a seed glob pattern
MaxSeedLines == 2   \* lines of one seed file

\* ------------------------------------------------------------- line universe
\* Non-empty lines fed to the tool.  "tqt" and "dluw" are a genuine xxh32
\* collision (5acd9445); the xxh32 of "aqc" starts with the byte 0x00
\* (00b5dac6); "foo" is an ordinary line (e20f0dd9).
Text == {"foo", "tqt", "dluw", "aqc"}

\* Lines as read from a text file: a non-empty text or the blank line.
Line == Text \cup {""}

\* A line that is never given to the tool; its hash (0b1af42c) is the
\* "hash never inserted into the store" of externally supplied streams.
Foreign == "cat"

\* xxhash.xxh32(line, seed=0): the 32-bit XXH32 value of the UTF-8 bytes of
\* line, tabulated for the line universe as <<high 16 bits, low 16 bits>>.
xxh32(line) ==
    CASE line = "foo"  -> <<57871, 3545>>     \* e20f0dd9
      [] line = "tqt"  -> <<23245, 37957>>    \* 5acd9445
      [] line = "dluw" -> <<23245, 37957>>    \* 5acd9445
      [] line = "aqc"  -> <<181, 56006>>      \* 00b5dac6
      [] line = "cat"  -> <<2842, 62508>>     \* 0b1af42c
      [] line = ""     -> <<716, 23813>>      \* 02cc5d05

\* The four hex digits of a 16-bit word, most significant first.
HexWord(w) == << w \div 4096, (w \div 256) % 16, (w \div 16) % 16, w % 16 >>

\* xxh32.hexdigest(): 8 hex digits, big-endian.
hexdigest(h) == HexWord(h[1]) \o HexWord(h[2])

\* Variant of digest: the 4 bytes in little-endian order.
digest_little_endian(h) ==
    << h[2] % 256, h[2] \div 256, h[1] % 256, h[1] \div 256 >>

\* xxh32.digest(): 4 bytes, big-endian.
digest(h) == << h[1] \div 256, h[1] % 256, h[2] \div 256, h[2] % 256 >>

\* bytes.hex(): two hex digits per byte.
bytes_hex(bs) ==
    [i \in 1..(2 * Len(bs)) |->
        IF i % 2 = 1 THEN bs[(i + 1) \div 2] \div 16 ELSE bs[i \div 2] % 16]

\* ------------------------------------------------------------------ HashStore
\* The empty dict {}.
EmptyStore == [k \in {} |-> ""]

\* self.store[hash_hex] = text
DictSet(st, k, v) == [x \in DOMAIN st \cup {k} |-> IF x = k THEN v ELSE st[x]]

\* The collision warning add_item prints.
CollisionWarning(k, old, new) == [hex |-> k, original |-> old, new |-> new]

\* Variant of add_item: no membership test, the entry is always set.
add_item_always_set(st, h, text) ==
    [store |-> DictSet(st, hexdigest(h), text), ret |-> TRUE, warn |-> {}]

\* Variant of add_item: on a collision the stored line is replaced.
add_item_replace_on_collision(st, h, text) ==
    LET hash_hex == hexdigest(h) IN
    IF hash_hex \in DOMAIN st
    THEN [store |-> DictSet(st, hash_hex, text),
          ret   |-> FALSE,
          warn  |-> IF st[hash_hex] # text
                    THEN {CollisionWarning(hash_hex, st[hash_hex], text)}
                    ELSE {}]
    ELSE [store |-> DictSet(st, hash_hex, text), ret |-> TRUE, warn |-> {}]

\* Variant of add_item: for a stored hash it returns whether the stored line
\* is the given one.
add_item_true_if_stored(st, h, text) ==
    LET hash_hex == hexdigest(h) IN
    IF hash_hex \in DOMAIN st
    THEN [store |-> st,
          ret   |-> st[hash_hex] = text,
          warn  |-> IF st[hash_hex] # text
                    THEN {CollisionWarning(hash_hex, st[hash_hex], text)}
                    ELSE {}]
    ELSE [store |-> DictSet(st, hash_hex, text), ret |-> TRUE, warn |-> {}]

\* Variant of add_item: on a collision the stored line is dropped from the
\* dict.
add_item_evict_on_collision(st, h, text) ==
    LET hash_hex == hexdigest(h) IN
    IF hash_hex \in DOMAIN st
    THEN [store |-> IF st[hash_hex] # text
                    THEN [x \in DOMAIN st \ {hash_hex} |-> st[x]]
                    ELSE st,
          ret   |-> FALSE,
          warn  |-> IF st[hash_hex] # text
                    THEN {CollisionWarning(hash_hex, st[hash_hex], text)}
                    ELSE {}]
    ELSE [store |-> DictSet(st, hash_hex, text), ret |-> TRUE, warn |-> {}]

\* HashStore.add_item(xxhash_obj, text): the dict afterwards, the returned
\* bool and the collision warnings printed.
add_item(st, h, text) ==
    LET hash_hex == hexdigest(h) IN
    IF hash_hex \in DOMAIN st
    THEN [store |-> st,
          ret   |-> FALSE,
          warn  |-> IF st[hash_hex] # text
                    THEN {CollisionWarning(hash_hex, st[hash_hex], text)}
                    ELSE {}]
    ELSE [store |-> DictSet(st, hash_hex, text),
          ret   |-> TRUE,
          warn  |-> {}]

\* len(self.store)
size(st) == Cardinality(DOMAIN st)

\* pickle.dump(self.store, f): the items of the dict, one (key, value) pair
\* after the other.
RECURSIVE pickle_dump(_)
pickle_dump(st) ==
    IF DOMAIN st = {} THEN <<>>
    ELSE LET k == CHOOSE x \in DOMAIN st : TRUE
         IN <<<<k, st[k]>>>> \o pickle_dump([x \in DOMAIN st \ {k} |-> st[x]])

\* pickle.load(f): a dict built by setting the pickled items in order.
RECURSIVE pickle_load(_)
pickle_load(items) ==
    IF Len(items) = 0 THEN EmptyStore
    ELSE LET n == Len(items)
         IN DictSet(pickle_load(SubSeq(items, 1, n - 1)), items[n][1], items[n][2])

\* ------------------------------------------------------------- DedupeEngine
\* What the engine prints while decoding: a restored line (print(text), or
\* print() for a blank line), the missing-hash warning, the truncation
\* warning.
OutLine(text) == [kind |-> "line", text |-> text, key |-> <<>>]
MissingWarning(k) == [kind |-> "missing", text |-> "", key |-> k]
TruncatedWarning == [kind |-> "truncated", text |-> "", key |-> <<>>]

\* The record of "no add_item call yet".
NoCall ==
    [called |-> FALSE, key |-> <<>>, text |-> "", ret |-> FALSE, size0 |-> 0,
     again |-> FALSE]

\* The record of one add_item call: its arguments, its result, the size of
\* the dict when it was called, and whether it repeats the arguments of the
\* call before it (prev), that call having returned True.
Call(prev, st, h, text, r) ==
    [called |-> TRUE, key |-> hexdigest(h), text |-> text, ret |-> r.ret,
     size0 |-> size(st),
     again |-> prev.called /\ prev.ret /\ prev.key = hexdigest(h) /\ prev.text = text]

\* Variant of encode_line: the hash is written only for a line add_item
\* accepted.
encode_line_skip_refused(prev, st, line) ==
    IF line = ""
    THEN [store |-> st, wrote |-> <<0>>, call |-> prev, warn |-> {}]
    ELSE LET h == xxh32(line)
             r == add_item(st, h, line)
         IN [store |-> r.store, wrote |-> IF r.ret THEN digest(h) ELSE <<>>,
             call |-> Call(prev, st, h, line, r), warn |-> r.warn]

\* Variant of encode_line: nothing is written for a blank line.
encode_line_no_marker(prev, st, line) ==
    IF line = ""
    THEN [store |-> st, wrote |-> <<>>, call |-> prev, warn |-> {}]
    ELSE LET h == xxh32(line)
             r == add_item(st, h, line)
         IN [store |-> r.store, wrote |-> digest(h),
             call |-> Call(prev, st, h, line, r), warn |-> r.warn]

\* Variant of encode_line: a line add_item did not add is written as the
\* single marker byte.
encode_line_mark_known(prev, st, line) ==
    IF line = ""
    THEN [store |-> st, wrote |-> <<0>>, call |-> prev, warn |-> {}]
    ELSE LET h == xxh32(line)
             r == add_item(st, h, line)
         IN [store |-> r.store, wrote |-> IF r.ret THEN digest(h) ELSE <<0>>,
             call |-> Call(prev, st, h, line, r), warn |-> r.warn]

\* One iteration of the loop of process_and_encode over a stripped line:
\* the dict afterwards, the bytes written to the output file, the latest
\* add_item call (prev if this iteration makes none) and the warnings printed.
encode_line(prev, st, line) ==
    IF line = ""
    THEN [store |-> st, wrote |-> <<0>>, call |-> prev, warn |-> {}]
    ELSE LET h == xxh32(line)
             r == add_item(st, h, line)
         IN [store |-> r.store, wrote |-> digest(h),
             call |-> Call(prev, st, h, line, r), warn |-> r.warn]

\* The loop of process_and_encode over the lines ls, started with the dict
\* st: the bytes written to the output file.
RECURSIVE encode_file(_, _)
encode_file(st, ls) ==
    IF Len(ls) = 0 THEN <<>>
    ELSE LET r == encode_line(NoCall, st, Head(ls))
         IN r.wrote \o encode_file(r.store, Tail(ls))

\* The loop of process_and_encode over the lines ls, started with the dict
\* st: the dict afterwards.
RECURSIVE encode_store(_, _)
encode_store(st, ls) ==
    IF Len(ls) = 0 THEN st
    ELSE encode_store(encode_line(NoCall, st, Head(ls)).store, Tail(ls))

\* Variant of seed_line: no test for the empty line, every line is hashed
\* and given to add_item.
seed_line_no_blank_test(prev, st, line) ==
    LET h == xxh32(line)
        r == add_item(st, h, line)
    IN [store |-> r.store, added |-> IF r.ret THEN 1 ELSE 0,
        call |-> Call(prev, st, h, line, r), warn |-> r.warn]

\* Variant of seed_line: unique_lines_added counts every add_item call,
\* whatever it returned.
seed_line_count_every_call(prev, st, line) ==
    IF line # ""
    THEN LET h == xxh32(line)
             r == add_item(st, h, line)
         IN [store |-> r.store, added |-> 1,
             call |-> Call(prev, st, h, line, r), warn |-> r.warn]
    ELSE [store |-> st, added |-> 0, call |-> prev, warn |-> {}]

\* One iteration of the inner loop of seed_from_glob over a stripped line:
\* the dict afterwards, the increment of unique_lines_added, the latest
\* add_item call (prev if this iteration makes none) and the warnings printed.
seed_line(prev, st, line) ==
    IF line # ""
    THEN LET h == xxh32(line)
             r == add_item(st, h, line)
         IN [store |-> r.store, added |-> IF r.ret THEN 1 ELSE 0,
             call |-> Call(prev, st, h, line, r), warn |-> r.warn]
    ELSE [store |-> st, added |-> 0, call |-> prev, warn |-> {}]

\* infile.read(n) at file position pos: at most n bytes, fewer at the end.
read(f, pos, n) ==
    SubSeq(f, pos + 1, IF pos + n <= Len(f) THEN pos + n ELSE Len(f))

\* The decoder's position and locals: pc (the state of the decode state
\* machine), rpos (bytes consumed), chunk (bytes of the current record),
\* key (hash_hex_key), printed (what was printed so far).
DecodeBegin ==
    [pc |-> "Start", rpos |-> 0, chunk |-> <<>>, key |-> <<>>, printed |-> <<>>]

\* Variant of decode_read1: records of a fixed width, a record that starts
\* with the marker is a blank line and its other 3 bytes are skipped.
decode_read1_fixed_width(f, d) ==
    LET c == read(f, d.rpos, 1) IN
    IF Len(c) = 0
    THEN [d EXCEPT !.pc = "Done", !.chunk = c]
    ELSE IF c = <<0>>
         THEN [d EXCEPT !.pc = "EmitBlank", !.chunk = c,
                        !.rpos = @ + Len(read(f, d.rpos, 4))]
         ELSE [d EXCEPT !.pc = "ReadRemaining3", !.chunk = c, !.rpos = @ + 1]

\* Variant of decode_read1: no test for the blank marker, every byte starts
\* a hash.
decode_read1_no_marker(f, d) ==
    LET c == read(f, d.rpos, 1) IN
    IF Len(c) = 0
    THEN [d EXCEPT !.pc = "Done", !.chunk = c]
    ELSE [d EXCEPT !.pc = "ReadRemaining3", !.chunk = c, !.rpos = @ + 1]

\* Start: chunk = infile.read(1); EOF ends the loop, the marker 0x00 leads to
\* the blank line, any other byte is the first byte of a hash.
decode_read1(f, d) ==
    LET c == read(f, d.rpos, 1) IN
    IF Len(c) = 0
    THEN [d EXCEPT !.pc = "Done", !.chunk = c]
    ELSE IF c = <<0>>
         THEN [d EXCEPT !.pc = "EmitBlank", !.chunk = c, !.rpos = @ + 1]
         ELSE [d EXCEPT !.pc = "ReadRemaining3", !.chunk = c, !.rpos = @ + 1]

\* EmitBlank: print()
decode_emit_blank(d) ==
    [d EXCEPT !.pc = "Start", !.printed = Append(@, OutLine(""))]

\* Variant of decode_read3: no length test, a short read is looked up as it
\* is.
decode_read3_no_length_test(f, d) ==
    LET remaining_hash_bytes == read(f, d.rpos, 3) IN
    [d EXCEPT !.pc = "Lookup",
              !.rpos = @ + Len(remaining_hash_bytes),
              !.chunk = @ \o remaining_hash_bytes]

\* ReadRemaining3: remaining_hash_bytes = infile.read(3); a short read prints
\* the truncation warning and ends the loop.
decode_read3(f, d) ==
    LET remaining_hash_bytes == read(f, d.rpos, 3) IN
    IF Len(remaining_hash_bytes) # 3
    THEN [d EXCEPT !.pc = "Error",
                   !.rpos = @ + Len(remaining_hash_bytes),
                   !.printed = Append(@, TruncatedWarning)]
    ELSE [d EXCEPT !.pc = "Lookup",
                   !.rpos = @ + 3,
                   !.chunk = @ \o remaining_hash_bytes]

\* Lookup: hash_hex_key = (chunk + remaining_hash_bytes).hex()
decode_lookup(d) ==
    [d EXCEPT !.pc = "EmitOrWarn", !.key = bytes_hex(d.chunk)]

\* Variant of decode_emit_or_warn: a missing hash also prints an empty line
\* in place of the lost one.
decode_emit_or_warn_placeholder(st, d) ==
    IF d.key \in DOMAIN st
    THEN [d EXCEPT !.pc = "Start", !.printed = Append(@, OutLine(st[d.key]))]
    ELSE [d EXCEPT !.pc = "Start",
                   !.printed = Append(Append(@, MissingWarning(d.key)), OutLine(""))]

\* EmitOrWarn: print the stored line, or the missing-hash warning.
decode_emit_or_warn(st, d) ==
    IF d.key \in DOMAIN st
    THEN [d EXCEPT !.pc = "Start", !.printed = Append(@, OutLine(st[d.key]))]
    ELSE [d EXCEPT !.pc = "Start", !.printed = Append(@, MissingWarning(d.key))]

\* One step of the loop of decode_and_print.
decode_step(f, st, d) ==
    CASE d.pc = "Start"          -> decode_read1(f, d)
      [] d.pc = "EmitBlank"      -> decode_emit_blank(d)
      [] d.pc = "ReadRemaining3" -> decode_read3(f, d)
      [] d.pc = "Lookup"         -> decode_lookup(d)
      [] d.pc = "EmitOrWarn"     -> decode_emit_or_warn(st, d)
      [] OTHER                   -> d

\* The loop of decode_and_print run from d until it ends (Done or Error).
RECURSIVE decode_loop(_, _, _)
decode_loop(f, st, d) ==
    IF d.pc \in {"Done", "Error"} THEN d ELSE decode_loop(f, st, decode_step(f, st, d))

\* ------------------------------------------------------------------- inputs
\* The pieces of an externally supplied hash file: the blank marker, the
\* hash of a line of the universe, a hash no line of the universe has, and
\* cut-off hashes of 1 and 3 bytes.
Chunks ==
    { <<0>>,
      digest(xxh32("foo")),
      digest(xxh32(Foreign)),
      SubSeq(digest(xxh32(Foreign)), 1, 1),
      SubSeq(digest(xxh32(Foreign)), 1, 3) }

RECURSIVE Concats(_)
Concats(n) ==
    IF n = 0 THEN {<<>>}
    ELSE LET P == Concats(n - 1) IN P \cup {p \o c : p \in P, c \in Chunks}

\* The contents an externally supplied hash file can have.
Streams == Concats(MaxChunks)

\* The file at db_path: absent, a file that is not gzip data, a gzip file
\* cut short, or the blob written by save (the pickled items, compressed).
Blob(kind, items) == [kind |-> kind, items |-> items]
InitialDb == {Blob("absent", <<>>), Blob("garbage", <<>>),
              Blob("truncated", <<>>)}

\* -------------------------------------------------------------------- state
VARIABLES
    driver,                 \* "main": the CLI main(); "api": a caller of the classes
    pc,                     \* position of the process
    exit_code,              \* status of the process once pc = "exited"
    error,                  \* the failure the process or call reported last,
                            \* "" if none
    load_msg,               \* what _load printed in this process
    db,                     \* the file at db_path
    store,                  \* HashStore.store
    warned,                 \* collision warnings printed by this process
    last_add,               \* most recent add_item call, while the caller holds it
    lines,                  \* the lines read from the text file being (or last)
                            \* read, stripped
    lpos,                   \* how many lines have been read from it
    out,                    \* the output file of process_and_encode
    have_out,               \* out is the finished encoding of lines
    files_left,             \* seed: files of the glob not yet processed
    total_lines_processed,  \* seed counter
    unique_lines_added,     \* seed counter
    size_before,            \* seed: len(store) when the seeding started
    stream,                 \* the hash file given to decode_and_print
    src,                    \* "encoded": stream is out; "external"; "none"
    dec                     \* the decoder's position and locals; after the
                            \* call only the state its loop ended in

procVars == <<store, warned, last_add>>
fileVars == <<lines, lpos, out, have_out>>
seedVars == <<files_left, total_lines_processed, unique_lines_added, size_before>>
decVars == <<stream, src, dec>>
msgVars == <<error, load_msg>>
vars == <<driver, pc, exit_code, msgVars, db, procVars, fileVars, seedVars, decVars>>

Init ==
    /\ driver \in {"api", "main"}
    /\ pc = "boot"
    /\ exit_code = 0
    /\ error = "" /\ load_msg = ""
    /\ db \in InitialDb
    /\ store = EmptyStore
    /\ warned = {}
    /\ last_add = NoCall
    /\ lines = <<>> /\ lpos = 0 /\ out = <<>> /\ have_out = FALSE
    /\ files_left = 0 /\ total_lines_processed = 0 /\ unique_lines_added = 0
    /\ size_before = 0
    /\ stream = <<>> /\ src = "none" /\ dec = DecodeBegin

\* Where control goes when an engine method returns: main() goes on to
\* hash_store.save(), an API caller is free to make the next call.
Return == IF driver = "main" THEN "main_save" ELSE "idle"

\* The points at which an engine method is called: main()'s dispatch on its
\* arguments, or an API caller between two calls.
CallPoint == pc \in {"dispatch", "idle"}

\* A call point with no finished encoding kept for decoding.
Ready == CallPoint /\ ~have_out

ResetFiles == lines' = <<>> /\ lpos' = 0 /\ out' = <<>> /\ have_out' = FALSE
ResetSeed ==
    /\ files_left' = 0 /\ total_lines_processed' = 0 /\ unique_lines_added' = 0
    /\ size_before' = 0
ResetDecode == stream' = <<>> /\ src' = "none" /\ dec' = DecodeBegin

\* What is left of a decode_and_print call once its locals are gone: the
\* state its loop was in.
Outcome(d) == [DecodeBegin EXCEPT !.pc = d.pc]

\* The process ends with the given status, err being the failure it reported
\* last: its memory is gone, the files and what it printed stay.
Exit(status, err) ==
    /\ pc' = "exited"
    /\ exit_code' = status
    /\ error' = err
    /\ load_msg' = load_msg
    /\ store' = EmptyStore /\ warned' = {} /\ last_add' = NoCall
    /\ lpos' = 0
    /\ ResetSeed
    /\ stream' = <<>>
    /\ dec' = Outcome(dec)

\* sys.exit(1) after the error was printed, or an exception that escapes
\* main() (the interpreter prints the traceback and exits with status 1).
Die(err) == Exit(1, err)

\* ------------------------------------------------------ HashStore lifecycle
\* The exception gzip.open(...) / pickle.load(f) raise on the file at
\* db_path, "" when the dict is unpickled: a file that is not gzip data
\* raises gzip.BadGzipFile, a gzip file cut short raises EOFError.
load_raises(file) ==
    CASE file.kind = "garbage"   -> "BadGzipFile"
      [] file.kind = "truncated" -> "EOFError"
      [] OTHER                   -> ""

\* The exceptions the except clause of _load catches: (IOError,
\* pickle.UnpicklingError); BadGzipFile is an OSError, which IOError names.
load_catches == {"BadGzipFile", "IOError", "UnpicklingError"}

\* HashStore._load(): the dict unpickled from the blob; {} when the file is
\* absent or when the exception raised is caught.
load(file) == IF file.kind = "blob" THEN pickle_load(file.items) ELSE EmptyStore

\* What _load prints: "Successfully loaded", "Warning: Could not load data"
\* or "No existing hash store found".
load_report(file) ==
    CASE file.kind = "absent" -> "none_found"
      [] file.kind = "blob"   -> "loaded"
      [] OTHER                -> "warning"

\* HashStore(db_path) where _load returns normally.
Load ==
    /\ pc = "boot"
    /\ load_raises(db) \in load_catches \cup {""}
    /\ store' = load(db)
    /\ load_msg' = load_report(db)
    /\ pc' = IF driver = "main" THEN "dispatch" ELSE "idle"
    /\ UNCHANGED <<driver, exit_code, error, db, warned, last_add, fileVars, seedVars,
                   decVars>>

\* HashStore(db_path) on a gzip file cut short: gzip raises EOFError, which
\* _load does not catch (it catches IOError and pickle.UnpicklingError).
LoadCrash ==
    /\ pc = "boot"
    /\ load_raises(db) \notin load_catches \cup {""}
    /\ Die(load_raises(db))
    /\ UNCHANGED <<driver, db, lines, out, have_out, src>>

\* Variant of MainSave: the file is opened in append mode, so that a file
\* already there keeps its old content in front of what is written.
MainSaveAppend ==
    /\ pc = "main_save"
    /\ db' = IF db.kind = "absent" THEN Blob("blob", pickle_dump(store)) ELSE db
    /\ pc' = "main_end"
    /\ UNCHANGED <<driver, exit_code, msgVars, procVars, fileVars, seedVars, decVars>>

\* HashStore.save() succeeding, called last by main().
MainSave ==
    /\ pc = "main_save"
    /\ db' = Blob("blob", pickle_dump(store))
    /\ pc' = "main_end"
    /\ UNCHANGED <<driver, exit_code, msgVars, procVars, fileVars, seedVars, decVars>>

\* main() returns after the save: the process ends with status 0.
MainReturn ==
    /\ pc = "main_end"
    /\ Exit(0, error)
    /\ UNCHANGED <<driver, db, lines, out, have_out, src>>

\* HashStore.save() failing with IOError: the file could not be opened (left
\* as it was) or the write broke off (left cut short); sys.exit(1).
MainSaveFail ==
    /\ pc = "main_save"
    /\ db' \in {db, Blob("truncated", <<>>)}
    /\ Die("save_failed")
    /\ UNCHANGED <<driver, lines, out, have_out, src>>

\* The next invocation of the CLI: a new process.  The files stay; a text
\* file and its finished encoding are kept track of, other files are not.
NewProcess ==
    /\ pc = "exited"
    /\ driver = "main"
    /\ pc' = "boot"
    /\ exit_code' = 0
    /\ error' = "" /\ load_msg' = ""
    /\ IF have_out THEN UNCHANGED <<lines, lpos, out, have_out>> ELSE ResetFiles
    /\ ResetDecode
    /\ UNCHANGED <<driver, db, procVars, seedVars>>

\* The text file and its encoding are put aside: whatever is called next
\* works on other files.
Forget ==
    /\ CallPoint
    /\ have_out
    /\ ResetFiles
    /\ UNCHANGED <<driver, pc, exit_code, msgVars, db, procVars, seedVars, decVars>>

\* A direct call of HashStore.add_item with the hash of the text, by an API
\* caller that keeps no files from earlier calls.
AddItemCall ==
    /\ pc = "idle" /\ ~have_out
    /\ error' = ""
    /\ \E text \in Text :
          LET h == xxh32(text)
              r == add_item(store, h, text)
          IN /\ store' = r.store
             /\ warned' = warned \cup r.warn
             /\ last_add' = Call(last_add, store, h, text, r)
    /\ ResetFiles
    /\ ResetDecode
    /\ UNCHANGED <<driver, pc, exit_code, load_msg, db, seedVars>>

\* ------------------------------------------------------------ seed_from_glob
\* seed_from_glob is called: glob.glob matches n files.  With no file it
\* prints "No files found" and returns; otherwise the counters start at 0.
SeedStart ==
    /\ Ready
    /\ \E n \in 0..MaxFiles :
          /\ files_left' = n
          /\ pc' = IF n = 0 THEN Return ELSE "seed_open"
          /\ error' = IF n = 0 THEN "no_files_found" ELSE ""
          /\ size_before' = IF n = 0 THEN 0 ELSE size(store)
    /\ total_lines_processed' = 0
    /\ unique_lines_added' = 0
    /\ last_add' = NoCall
    /\ ResetFiles
    /\ ResetDecode
    /\ UNCHANGED <<driver, exit_code, load_msg, db, store, warned>>

\* The next matched file is opened.
SeedOpen ==
    /\ pc = "seed_open"
    /\ files_left > 0
    /\ lines' = <<>>
    /\ lpos' = 0
    /\ pc' = "seed_line"
    /\ UNCHANGED <<driver, exit_code, msgVars, db, procVars, out, have_out, seedVars, decVars>>

\* One iteration of "for line in infile": the file yields one more line.
SeedLine ==
    /\ pc = "seed_line"
    /\ lpos < MaxSeedLines
    /\ \E line \in Line :
          LET r == seed_line(last_add, store, line)
          IN /\ lines' = Append(lines, line)
             /\ store' = r.store
             /\ warned' = warned \cup r.warn
             /\ last_add' = r.call
             /\ unique_lines_added' = unique_lines_added + r.added
    /\ total_lines_processed' = total_lines_processed + 1
    /\ lpos' = lpos + 1
    /\ UNCHANGED <<driver, pc, exit_code, msgVars, db, out, have_out, files_left, size_before, decVars>>

\* The file is exhausted: on to the next file.
SeedEOF ==
    /\ pc = "seed_line"
    /\ files_left' = files_left - 1
    /\ pc' = "seed_open"
    /\ UNCHANGED <<driver, exit_code, msgVars, db, procVars, fileVars,
                   total_lines_processed, unique_lines_added, size_before, decVars>>

\* IOError while opening or reading the file: the error is printed and the
\* loop continues with the next file.
SeedIOError ==
    /\ pc = "seed_line"
    /\ files_left' = files_left - 1
    /\ pc' = "seed_open"
    /\ UNCHANGED <<driver, exit_code, msgVars, db, procVars, fileVars,
                   total_lines_processed, unique_lines_added, size_before, decVars>>

\* All files processed: the counters are printed and seed_from_glob returns;
\* its locals are gone.
SeedDone ==
    /\ pc = "seed_open"
    /\ files_left = 0
    /\ pc' = Return
    /\ last_add' = NoCall
    /\ ResetFiles
    /\ ResetSeed
    /\ UNCHANGED <<driver, exit_code, msgVars, db, store, warned, decVars>>

\* -------------------------------------------------------- process_and_encode
\* process_and_encode is called on an existing input file: both files are
\* opened, the output file is truncated.
EncodeStart ==
    /\ Ready
    /\ error' = ""
    /\ lines' = <<>>
    /\ lpos' = 0
    /\ out' = <<>>
    /\ have_out' = FALSE
    /\ pc' = "encode"
    /\ last_add' = NoCall
    /\ ResetSeed
    /\ ResetDecode
    /\ UNCHANGED <<driver, exit_code, load_msg, db, store, warned>>

\* process_and_encode is called on a missing input file: sys.exit(1).
EncodeMissing ==
    /\ Ready
    /\ Die("input_not_found")
    /\ ResetFiles
    /\ src' = "none"
    /\ UNCHANGED <<driver, db>>

\* One iteration of "for line in infile": the file yields one more line.
\* Variant of EncodeLine: the store is saved after every line.
EncodeLineAutoSave ==
    /\ pc = "encode"
    /\ lpos < MaxLines
    /\ \E line \in Line :
          LET r == encode_line(last_add, store, line)
          IN /\ lines' = Append(lines, line)
             /\ store' = r.store
             /\ warned' = warned \cup r.warn
             /\ last_add' = r.call
             /\ out' = out \o r.wrote
             /\ db' = Blob("blob", pickle_dump(r.store))
    /\ lpos' = lpos + 1
    /\ UNCHANGED <<driver, pc, exit_code, msgVars, have_out, seedVars, decVars>>

EncodeLine ==
    /\ pc = "encode"
    /\ lpos < MaxLines
    /\ \E line \in Line :
          LET r == encode_line(last_add, store, line)
          IN /\ lines' = Append(lines, line)
             /\ store' = r.store
             /\ warned' = warned \cup r.warn
             /\ last_add' = r.call
             /\ out' = out \o r.wrote
    /\ lpos' = lpos + 1
    /\ UNCHANGED <<driver, pc, exit_code, msgVars, db, have_out, seedVars, decVars>>

\* The input is exhausted: both files are closed, "Encoding complete."
EncodeEOF ==
    /\ pc = "encode"
    /\ have_out' = TRUE
    /\ pc' = Return
    /\ last_add' = NoCall
    /\ UNCHANGED <<driver, exit_code, msgVars, db, store, warned, lines, lpos, out, seedVars, decVars>>

\* IOError while reading or writing: the error is printed, sys.exit(1).
EncodeIOError ==
    /\ pc = "encode"
    /\ Die("io_error")
    /\ UNCHANGED <<driver, db, lines, out, have_out, src>>

\* ---------------------------------------------------------- decode_and_print
\* decode_and_print is called on a hash file that did not come from the
\* preceding process_and_encode.
DecodeStart ==
    /\ Ready
    /\ error' = ""
    /\ \E s \in Streams : stream' = s
    /\ src' = "external"
    /\ dec' = DecodeBegin
    /\ pc' = "decode"
    /\ last_add' = NoCall
    /\ ResetFiles
    /\ ResetSeed
    /\ UNCHANGED <<driver, exit_code, load_msg, db, store, warned>>

\* decode_and_print is called on the output file of the preceding
\* process_and_encode.
DecodeEncoded ==
    /\ CallPoint
    /\ error' = ""
    /\ have_out
    /\ stream' = out
    /\ src' = "encoded"
    /\ dec' = DecodeBegin
    /\ pc' = "decode"
    /\ UNCHANGED <<driver, exit_code, load_msg, db, procVars, fileVars, seedVars>>

\* decode_and_print is called on a missing hash file: sys.exit(1).
DecodeMissing ==
    /\ Ready
    /\ Die("hash_file_not_found")
    /\ ResetFiles
    /\ src' = "missing"
    /\ UNCHANGED <<driver, db>>

\* The steps of the loop, one per state of the decode state machine.
DecodeRead1 ==
    /\ pc = "decode" /\ dec.pc = "Start"
    /\ dec' = decode_read1(stream, dec)
    /\ UNCHANGED <<driver, pc, exit_code, msgVars, db, procVars, fileVars, seedVars, stream, src>>

DecodeEmitBlank ==
    /\ pc = "decode" /\ dec.pc = "EmitBlank"
    /\ dec' = decode_emit_blank(dec)
    /\ UNCHANGED <<driver, pc, exit_code, msgVars, db, procVars, fileVars, seedVars, stream, src>>

DecodeRead3 ==
    /\ pc = "decode" /\ dec.pc = "ReadRemaining3"
    /\ dec' = decode_read3(stream, dec)
    /\ UNCHANGED <<driver, pc, exit_code, msgVars, db, procVars, fileVars, seedVars, stream, src>>

DecodeLookup ==
    /\ pc = "decode" /\ dec.pc = "Lookup"
    /\ dec' = decode_lookup(dec)
    /\ UNCHANGED <<driver, pc, exit_code, msgVars, db, procVars, fileVars, seedVars, stream, src>>

\* Variant of DecodeEmitOrWarn: a missing hash is entered in the store with
\* an empty line (a lookup that inserts a default).
DecodeEmitOrWarnInsert ==
    /\ pc = "decode" /\ dec.pc = "EmitOrWarn"
    /\ dec' = decode_emit_or_warn(store, dec)
    /\ store' = IF dec.key \in DOMAIN store THEN store ELSE DictSet(store, dec.key, "")
    /\ UNCHANGED <<driver, pc, exit_code, msgVars, db, warned, last_add, fileVars, seedVars, stream, src>>

DecodeEmitOrWarn ==
    /\ pc = "decode" /\ dec.pc = "EmitOrWarn"
    /\ dec' = decode_emit_or_warn(store, dec)
    /\ UNCHANGED <<driver, pc, exit_code, msgVars, db, procVars, fileVars, seedVars, stream, src>>

\* Variant of DecodeEnd: after a truncated record the process exits with
\* status 1.
DecodeEndFailOnError ==
    /\ pc = "decode" /\ dec.pc \in {"Done", "Error"}
    /\ IF dec.pc = "Error"
       THEN /\ Die("truncated")
            /\ UNCHANGED <<driver, db, lines, out, have_out, src>>
       ELSE /\ pc' = Return
            /\ stream' = <<>>
            /\ dec' = Outcome(dec)
            /\ UNCHANGED <<driver, exit_code, msgVars, db, procVars, fileVars, seedVars, src>>

\* The loop has ended (EOF or truncation): "Decoding complete." is printed
\* and decode_and_print returns.
DecodeEnd ==
    /\ pc = "decode" /\ dec.pc \in {"Done", "Error"}
    /\ pc' = Return
    /\ stream' = <<>>
    /\ dec' = Outcome(dec)
    /\ UNCHANGED <<driver, exit_code, msgVars, db, procVars, fileVars, seedVars, src>>

\* IOError while reading the hash file: the error is printed, sys.exit(1).
DecodeIOError ==
    /\ pc = "decode" /\ dec.pc \notin {"Done", "Error"}
    /\ Die("io_error")
    /\ UNCHANGED <<driver, db, lines, out, have_out, src>>

\* ------------------------------------------------------------ specification
Next ==
    \/ Load \/ LoadCrash \/ MainSave \/ MainSaveFail \/ MainReturn \/ NewProcess \/ Forget
    \/ AddItemCall
    \/ SeedStart \/ SeedOpen \/ SeedLine \/ SeedEOF \/ SeedIOError \/ SeedDone
    \/ EncodeStart \/ EncodeMissing \/ EncodeLine \/ EncodeEOF \/ EncodeIOError
    \/ DecodeStart \/ DecodeEncoded \/ DecodeMissing
    \/ DecodeRead1 \/ DecodeEmitBlank \/ DecodeRead3 \/ DecodeLookup
    \/ DecodeEmitOrWarn \/ DecodeEnd \/ DecodeIOError

Spec == Init /\ [][Next]_vars

\* ============================================================ second variant
\* collision_dedup_cli.py: the command line tool that normalizes lines
\* (strip, lower-case) before hashing them with a truncated SHA-256.  Its
\* lines are sequences of characters, so that str.strip() and str.lower()
\* are computed.
c_Text == { <<"a", "b">>, <<"A", "b">>, <<"a", "b", " ">>, <<"c", "d">> }

\* Lines as the file iterator yields them, the terminator left out: a text or
\* the empty line.
c_Line == c_Text \cup {<<>>}

\* str.strip(): leading and trailing whitespace removed.
RECURSIVE lstrip(_)
lstrip(s) == IF Len(s) > 0 /\ s[1] = " " THEN lstrip(Tail(s)) ELSE s
RECURSIVE rstrip(_)
rstrip(s) ==
    IF Len(s) > 0 /\ s[Len(s)] = " " THEN rstrip(SubSeq(s, 1, Len(s) - 1)) ELSE s
strip(s) == rstrip(lstrip(s))

\* str.lower()
lower(s) ==
    [i \in 1..Len(s) |->
        CASE s[i] = "A" -> "a" [] s[i] = "B" -> "b" [] s[i] = "C" -> "c"
          [] s[i] = "D" -> "d" [] OTHER -> s[i]]

\* hashlib.sha256(text.encode('utf-8')).hexdigest(): 64 hex digits, tabulated
\* for the normalized texts of the universe.
sha256_hexdigest(text) ==
    CASE text = <<"a", "b">> ->
        \* fb8e20fc2e4c3f248c60c39bd652f3c1
        \* 347298bb977b8b4d5903b85055620603
        << 15, 11, 8, 14, 2, 0, 15, 12, 2, 14, 4, 12, 3, 15, 2, 4,
           8, 12, 6, 0, 12, 3, 9, 11, 13, 6, 5, 2, 15, 3, 12, 1,
           3, 4, 7, 2, 9, 8, 11, 11, 9, 7, 7, 11, 8, 11, 4, 13,
           5, 9, 0, 3, 11, 8, 5, 0, 5, 5, 6, 2, 0, 6, 0, 3 >>
      [] text = <<"c", "d">> ->
        \* 21e721c35a5823fdb452fa2f9f0a612c
        \* 74fb952e06927489c6b27a43b817bed4
        << 2, 1, 14, 7, 2, 1, 12, 3, 5, 10, 5, 8, 2, 3, 15, 13,
           11, 4, 5, 2, 15, 10, 2, 15, 9, 15, 0, 10, 6, 1, 2, 12,
           7, 4, 15, 11, 9, 5, 2, 14, 0, 6, 9, 2, 7, 4, 8, 9,
           12, 6, 11, 2, 7, 10, 4, 3, 11, 8, 1, 7, 11, 14, 13, 4 >>

\* DedupeEngine._generate_hash(text): hexdigest()[16:] of the normalized text.
generate_hash(text) ==
    LET normalized_text == lower(strip(text))
        full == sha256_hexdigest(normalized_text)
    IN SubSeq(full, 17, Len(full))

\* bytes.fromhex(s): one byte per two hex digits.
bytes_fromhex(hx) == [i \in 1..(Len(hx) \div 2) |-> 16 * hx[2 * i - 1] + hx[2 * i]]

\* HashStore.add_item(item_hash, original_string) of the variant: the dict
\* afterwards, the returned bool and the collision warnings printed.
c_add_item(st, item_hash, original_string) ==
    IF item_hash \in DOMAIN st
    THEN [store |-> st,
          ret   |-> FALSE,
          warn  |-> IF st[item_hash] # original_string
                    THEN {CollisionWarning(item_hash, st[item_hash], original_string)}
                    ELSE {}]
    ELSE [store |-> DictSet(st, item_hash, original_string),
          ret   |-> TRUE,
          warn  |-> {}]

\* DedupeEngine.process_line(line): the dict afterwards, is_new and the
\* warnings printed; an empty stripped line is ignored.
process_line(st, line) ==
    LET stripped_line == strip(line) IN
    IF Len(stripped_line) = 0
    THEN [store |-> st, is_new |-> FALSE, warn |-> {}]
    ELSE LET r == c_add_item(st, generate_hash(stripped_line), stripped_line)
         IN [store |-> r.store, is_new |-> r.ret, warn |-> r.warn]

\* One iteration of the loop of process_file: the dict afterwards, the bytes
\* written to the output file, the increment of new_lines_count and the
\* warnings printed.
process_file_line(st, line) ==
    LET stripped_line == strip(line) IN
    IF Len(stripped_line) = 0
    THEN [store |-> st, wrote |-> <<0>>, added |-> 0, warn |-> {}]
    ELSE LET line_hash == generate_hash(stripped_line)
             r == c_add_item(st, line_hash, stripped_line)
         IN [store |-> r.store, wrote |-> bytes_fromhex(line_hash),
             added |-> IF r.ret THEN 1 ELSE 0, warn |-> r.warn]

\* What _load_store prints: "Loaded n items", the warning when the exception
\* raised is caught (every exception is), nothing when the file is absent.
load_store_report(file) ==
    CASE file.kind = "absent" -> ""
      [] file.kind = "blob"   -> "loaded"
      [] OTHER                -> "warning"

\* main() of the variant starts: the arguments are parsed, nothing is loaded
\* yet.  The variables are those of the first model; total_lines_processed
\* and unique_lines_added hold total_lines and total_new_lines.
c_Init ==
    /\ driver = "collision_cli"
    /\ pc = "boot"
    /\ exit_code = 0
    /\ error = "" /\ load_msg = ""
    /\ db \in InitialDb
    /\ store = EmptyStore
    /\ warned = {}
    /\ last_add = NoCall
    /\ lines = <<>> /\ lpos = 0 /\ out = <<>> /\ have_out = FALSE
    /\ files_left = 0 /\ total_lines_processed = 0 /\ unique_lines_added = 0
    /\ size_before = 0
    /\ stream = <<>> /\ src = "none" /\ dec = DecodeBegin

\* --seed, glob.glob matches no file: the warning is printed, sys.exit(1),
\* before any store is constructed.
c_SeedNoFiles ==
    /\ pc = "boot"
    /\ Die("no_files_found")
    /\ ResetFiles
    /\ src' = "none"
    /\ UNCHANGED <<driver, db>>

\* --seed, glob.glob matches n > 0 files.
c_SeedBranch ==
    /\ pc = "boot"
    /\ \E n \in 1..MaxFiles : files_left' = n
    /\ total_lines_processed' = 0
    /\ unique_lines_added' = 0
    /\ size_before' = 0
    /\ pc' = "seed_load"
    /\ ResetFiles
    /\ UNCHANGED <<driver, exit_code, msgVars, db, procVars, decVars>>

\* --input (--output has a default, so it is never missing).
c_InputBranch ==
    /\ pc = "boot"
    /\ pc' = "input_load"
    /\ UNCHANGED <<driver, exit_code, msgVars, db, procVars, fileVars, seedVars, decVars>>

\* --decode
c_DecodeBranch ==
    /\ pc = "boot"
    /\ pc' = "decode_load"
    /\ UNCHANGED <<driver, exit_code, msgVars, db, procVars, fileVars, seedVars, decVars>>

\* HashStore(db_path): _load_store catches every exception, the dict is {}
\* unless a blob was unpickled.
c_LoadStore ==
    /\ pc \in {"seed_load", "input_load", "decode_load"}
    /\ store' = load(db)
    /\ load_msg' = load_store_report(db)
    /\ pc' = CASE pc = "seed_load"  -> "seed_open"
               [] pc = "input_load" -> "process_file"
               [] OTHER             -> "decode_open"
    /\ size_before' = IF pc = "seed_load" THEN size(load(db)) ELSE 0
    /\ UNCHANGED <<driver, exit_code, error, db, warned, last_add, fileVars, files_left,
                   total_lines_processed, unique_lines_added, decVars>>

\* The seed loop opens the next file.
c_SeedOpen ==
    /\ pc = "seed_open"
    /\ files_left > 0
    /\ lines' = <<>>
    /\ lpos' = 0
    /\ pc' = "seed_line"
    /\ UNCHANGED <<driver, exit_code, msgVars, db, procVars, out, have_out, seedVars,
                   decVars>>

\* One iteration of "for line in f": total_lines += 1, process_line.
c_SeedLine ==
    /\ pc = "seed_line"
    /\ lpos < MaxSeedLines
    /\ \E line \in c_Line :
          LET r == process_line(store, line)
          IN /\ lines' = Append(lines, line)
             /\ store' = r.store
             /\ warned' = warned \cup r.warn
             /\ unique_lines_added' = unique_lines_added + (IF r.is_new THEN 1 ELSE 0)
    /\ total_lines_processed' = total_lines_processed + 1
    /\ lpos' = lpos + 1
    /\ UNCHANGED <<driver, pc, exit_code, msgVars, db, last_add, out, have_out,
                   files_left, size_before, decVars>>

\* The file is exhausted, or an exception was raised and printed ("Skipping"):
\* on to the next file.
c_SeedNextFile ==
    /\ pc = "seed_line"
    /\ files_left' = files_left - 1
    /\ pc' = "seed_open"
    /\ UNCHANGED <<driver, exit_code, msgVars, db, procVars, fileVars,
                   total_lines_processed, unique_lines_added, size_before, decVars>>

\* All files processed: the counters are printed, engine.save_state() is next.
c_SeedDone ==
    /\ pc = "seed_open"
    /\ files_left = 0
    /\ pc' = "save"
    /\ ResetFiles
    /\ ResetSeed
    /\ UNCHANGED <<driver, exit_code, msgVars, db, procVars, decVars>>

\* process_file on a missing input file: FileNotFoundError is caught, the
\* error is printed and process_file returns.
c_ProcessFileMissing ==
    /\ pc = "process_file"
    /\ error' = "input_not_found"
    /\ pc' = "save"
    /\ UNCHANGED <<driver, exit_code, load_msg, db, procVars, fileVars, seedVars, decVars>>

\* process_file opens the input file and truncates the output file.
c_ProcessFileOpen ==
    /\ pc = "process_file"
    /\ lines' = <<>> /\ lpos' = 0 /\ out' = <<>> /\ have_out' = FALSE
    /\ pc' = "encode"
    /\ UNCHANGED <<driver, exit_code, msgVars, db, procVars, seedVars, decVars>>

\* One iteration of "for line in infile" of process_file.
c_ProcessFileLine ==
    /\ pc = "encode"
    /\ lpos < MaxLines
    /\ \E line \in c_Line :
          LET r == process_file_line(store, line)
          IN /\ lines' = Append(lines, line)
             /\ store' = r.store
             /\ warned' = warned \cup r.warn
             /\ out' = out \o r.wrote
    /\ lpos' = lpos + 1
    /\ UNCHANGED <<driver, pc, exit_code, msgVars, db, last_add, have_out, seedVars,
                   decVars>>

\* The input is exhausted: the files are closed, the counts are printed.
c_ProcessFileEOF ==
    /\ pc = "encode"
    /\ have_out' = TRUE
    /\ pc' = "save"
    /\ UNCHANGED <<driver, exit_code, msgVars, db, procVars, lines, lpos, out, seedVars,
                   decVars>>

\* IOError in process_file: the error is printed and process_file returns.
c_ProcessFileIOError ==
    /\ pc = "encode"
    /\ error' = "io_error"
    /\ pc' = "save"
    /\ UNCHANGED <<driver, exit_code, load_msg, db, procVars, fileVars, seedVars, decVars>>

\* save_store() succeeding.
c_SaveStore ==
    /\ pc = "save"
    /\ db' = Blob("blob", pickle_dump(store))
    /\ pc' = "end"
    /\ UNCHANGED <<driver, exit_code, msgVars, procVars, fileVars, seedVars, decVars>>

\* save_store() failing with IOError: the error is printed and save_store
\* returns.
c_SaveStoreFail ==
    /\ pc = "save"
    /\ db' \in {db, Blob("truncated", <<>>)}
    /\ error' = "save_failed"
    /\ pc' = "end"
    /\ UNCHANGED <<driver, exit_code, load_msg, procVars, fileVars, seedVars, decVars>>

\* main() returns: the process ends with status 0.
c_MainReturn ==
    /\ pc = "end"
    /\ Exit(0, error)
    /\ UNCHANGED <<driver, db, lines, out, have_out, src>>

\* --decode of a missing hash file: FileNotFoundError, sys.exit(1).
c_DecodeMissing ==
    /\ pc = "decode_open"
    /\ Die("hash_file_not_found")
    /\ src' = "missing"
    /\ UNCHANGED <<driver, db, lines, out, have_out>>

\* --decode of a hash file that did not come from the preceding run.
c_DecodeOpen ==
    /\ pc = "decode_open"
    /\ ~have_out
    /\ \E s \in Streams : stream' = s
    /\ src' = "external"
    /\ dec' = DecodeBegin
    /\ pc' = "decode"
    /\ UNCHANGED <<driver, exit_code, msgVars, db, procVars, fileVars, seedVars>>

\* --decode of the output file of the preceding --input run.
c_DecodeEncoded ==
    /\ pc = "decode_open"
    /\ have_out
    /\ stream' = out
    /\ src' = "encoded"
    /\ dec' = DecodeBegin
    /\ pc' = "decode"
    /\ UNCHANGED <<driver, exit_code, msgVars, db, procVars, fileVars, seedVars>>

\* The decode loop has ended (EOF or a short read): main() returns without
\* saving, the process ends with status 0.
c_DecodeEnd ==
    /\ pc = "decode" /\ dec.pc \in {"Done", "Error"}
    /\ Exit(0, error)
    /\ UNCHANGED <<driver, db, lines, out, have_out, src>>

\* An exception while decoding: the error is printed, sys.exit(1).
c_DecodeException ==
    /\ pc = "decode" /\ dec.pc \notin {"Done", "Error"}
    /\ Die("io_error")
    /\ UNCHANGED <<driver, db, lines, out, have_out, src>>

\* The next invocation of the tool.
c_NewProcess ==
    /\ pc = "exited"
    /\ pc' = "boot"
    /\ exit_code' = 0
    /\ error' = "" /\ load_msg' = ""
    /\ IF have_out /\ src # "encoded"
       THEN UNCHANGED <<lines, lpos, out, have_out>>
       ELSE ResetFiles
    /\ ResetDecode
    /\ UNCHANGED <<driver, db, procVars, seedVars>>

\* The decode loop of the variant reads 1 byte, then 3 more, looks the 8 hex
\* digits up and prints the line or a warning, as that of the first model.
c_Next ==
    \/ c_SeedNoFiles \/ c_SeedBranch \/ c_InputBranch \/ c_DecodeBranch \/ c_LoadStore
    \/ c_SeedOpen \/ c_SeedLine \/ c_SeedNextFile \/ c_SeedDone
    \/ c_ProcessFileMissing \/ c_ProcessFileOpen \/ c_ProcessFileLine
    \/ c_ProcessFileEOF \/ c_ProcessFileIOError
    \/ c_SaveStore \/ c_SaveStoreFail \/ c_MainReturn
    \/ c_DecodeMissing \/ c_DecodeOpen \/ c_DecodeEncoded
    \/ DecodeRead1 \/ DecodeEmitBlank \/ DecodeRead3 \/ DecodeLookup \/ DecodeEmitOrWarn
    \/ c_DecodeEnd \/ c_DecodeException
    \/ c_NewProcess

SpecCollisionCli == c_Init /\ [][c_Next]_vars

\* ------------------------------------------------------------------- claims
\* The lines a decode printed, in order (warnings left out).
Emitted(printed) ==
    LET ls == SelectSeq(printed, LAMBDA e : e.kind = "line")
    IN [i \in 1..Len(ls) |-> ls[i].text]

\* Different non-empty lines of ls have different hashes.
DistinctHashes(ls) ==
    \A i, j \in 1..Len(ls) :
        (ls[i] # "" /\ ls[j] # "" /\ ls[i] # ls[j]) => xxh32(ls[i]) # xxh32(ls[j])

\* No hash of a non-empty line of ls starts with the byte 0x00.
NoLeadingZero(ls) ==
    \A i \in 1..Len(ls) : ls[i] # "" => digest(xxh32(ls[i]))[1] # 0

\* No line of ls was refused by add_item because its hash was already
\* mapped to a different line.
NoneRejected(ls) ==
    \A w \in warned : \A i \in 1..Len(ls) : w.new # ls[i]

\* An API caller has encoded lines and finished decoding the produced file
\* against the same HashStore object.
RoundTripDone ==
    /\ driver = "api"
    /\ pc = "decode"
    /\ src = "encoded"
    /\ dec.pc \in {"Done", "Error"}

\* C1 as claimed: whenever the non-empty lines of the input have pairwise
\* distinct hashes, decoding the encoding of the input against the same store
\* prints exactly the input lines, in order.
C1_RoundTripAsClaimed ==
    (RoundTripDone /\ DistinctHashes(lines)) => Emitted(dec.printed) = lines

\* C1 (amended): whenever the non-empty lines of the input have pairwise
\* distinct hashes, none of these hashes starts with the byte 0x00 and none
\* of them was already mapped in the store to a different line, decoding the
\* encoding of the input against the same store ends at the end of the
\* stream and prints exactly the input lines, in order, blank lines as blank
\* lines.
C1_RoundTrip ==
    (RoundTripDone /\ DistinctHashes(lines) /\ NoLeadingZero(lines)
        /\ NoneRejected(lines))
    => (dec.pc = "Done" /\ Emitted(dec.printed) = lines)

\* C1 witness: the round trip of ["foo", "", "tqt"] has been completed.
C1_Witness ==
    /\ RoundTripDone
    /\ lines = <<"foo", "", "tqt">>
    /\ NoneRejected(lines)
    /\ Emitted(dec.printed) = lines

\* C2: first writer wins.  While a process runs, every step keeps every
\* stored hash and the line it is mapped to (so the number of stored hashes
\* never decreases); the dict holds one line per hash.
C2_FirstWriterWins ==
    [][pc' # "exited" =>
          \A k \in DOMAIN store : k \in DOMAIN store' /\ store'[k] = store[k]]_vars

\* C2 witness: a second, different line with a stored hash has been offered
\* and the first line is still the one stored.
C2_Witness ==
    \E w \in warned : w.hex \in DOMAIN store /\ store[w.hex] = w.original
                      /\ w.new # w.original

\* A step in which add_item is called: a direct call, or an iteration of the
\* encode or seed loop over a non-empty line.
AddItemStep ==
    \/ pc = "idle" /\ pc' = "idle" /\ ~have_out /\ last_add'.called
    \/ pc = "encode" /\ pc' = "encode" /\ lpos' = lpos + 1 /\ lines'[lpos'] # ""
    \/ pc = "seed_line" /\ pc' = "seed_line" /\ lpos' = lpos + 1 /\ lines'[lpos'] # ""

\* C3: collision non-overwrite.  A call add_item(h, new) made while h is
\* mapped to a different line returns False and leaves the dict unchanged;
\* and for every refused line (w.new, refused in favour of w.original), h is
\* still mapped to w.original and a decoded 4-byte record with hash h prints
\* w.original, never w.new.
C3_CollisionNonOverwrite ==
    [][ /\ (AddItemStep /\ last_add'.key \in DOMAIN store
               /\ store[last_add'.key] # last_add'.text)
           => (~last_add'.ret /\ store' = store
               /\ CollisionWarning(last_add'.key, store[last_add'.key],
                                   last_add'.text) \in warned')
        /\ \A w \in warned' :
              /\ w.hex \in DOMAIN store' /\ store'[w.hex] = w.original
              /\ (pc = "decode" /\ dec.pc = "EmitOrWarn" /\ dec.key = w.hex
                     /\ dec'.pc = "Start")
                 => (dec'.printed = Append(dec.printed, OutLine(w.original))
                     /\ w.original # w.new)
      ]_vars

\* C3 witness: "dluw" was refused in favour of "tqt", and a decode has just
\* printed "tqt" for a record carrying their common hash.
C3_Witness ==
    /\ CollisionWarning(hexdigest(xxh32("tqt")), "tqt", "dluw") \in warned
    /\ pc = "decode"
    /\ dec.pc = "Start"
    /\ dec.key = hexdigest(xxh32("tqt"))
    /\ Len(dec.printed) > 0
    /\ dec.printed[Len(dec.printed)] = OutLine("tqt")

\* C4: idempotent insertion.  A call add_item(h, l) made while h is absent
\* returns True and grows the dict by one entry; a call that repeats the
\* arguments of such a call right after it returns False and changes nothing,
\* so that the two calls together grew the dict by exactly one entry.
C4_IdempotentInsertion ==
    [][AddItemStep =>
          LET c == last_add' IN
          /\ c.key \notin DOMAIN store
                => (c.ret /\ size(store') = size(store) + 1
                    /\ store'[c.key] = c.text)
          /\ c.again
                => (~c.ret /\ store' = store /\ warned' = warned
                    /\ size(store') = last_add.size0 + 1)
      ]_vars

\* C4 witness: add_item has just been called a second time with the
\* arguments of a call that had returned True.
C4_Witness ==
    /\ last_add.called
    /\ last_add.again
    /\ ~last_add.ret
    /\ last_add.key \in DOMAIN store
    /\ store[last_add.key] = last_add.text

\* An iteration of the loop of process_and_encode.
EncodeLineStep == pc = "encode" /\ pc' = "encode" /\ lpos' = lpos + 1

\* The last n elements of a sequence.
Last(sq, n) == SubSeq(sq, Len(sq) - n + 1, Len(sq))

\* C5: encode always emits the reference.  Every iteration over a non-empty
\* line calls add_item and appends the 4 bytes of the line's hash to the
\* output, whatever add_item returned; when the hash was already mapped to a
\* different line, add_item returned False and looking up the emitted 4
\* bytes gives that other, first-stored line.
C5_EncodeAlwaysEmits ==
    [][(EncodeLineStep /\ lines'[lpos'] # "") =>
          LET line == lines'[lpos']
              h == xxh32(line)
              k == hexdigest(h)
          IN /\ out' = out \o digest(h)
             /\ Len(out') = Len(out) + 4
             /\ last_add'.called /\ last_add'.text = line /\ last_add'.key = k
             /\ (k \in DOMAIN store /\ store[k] # line)
                   => /\ ~last_add'.ret
                      /\ bytes_hex(Last(out', 4)) \in DOMAIN store'
                      /\ store'[bytes_hex(Last(out', 4))] = store[k]
      ]_vars

\* C5 witness: encode has just written the hash of a line that add_item
\* refused because the hash is mapped to a different line.
C5_Witness ==
    /\ pc = "encode"
    /\ lpos > 0
    /\ last_add.called /\ ~last_add.ret
    /\ last_add.text = lines[lpos]
    /\ store[last_add.key] # lines[lpos]
    /\ Len(out) >= 4
    /\ Last(out, 4) = digest(xxh32(lines[lpos]))

\* The record of one line in the encoded stream.
Record(line) == IF line = "" THEN <<0>> ELSE digest(xxh32(line))

\* The in-order concatenation of the records of the lines.
RECURSIVE Layout(_)
Layout(ls) == IF Len(ls) = 0 THEN <<>> ELSE Record(Head(ls)) \o Layout(Tail(ls))

\* The number of non-empty lines.
NonEmptyCount(ls) == Cardinality({i \in 1..Len(ls) : ls[i] # ""})

\* The stream has the layout and the length the lines ls call for.
HasLayout(bytes, ls) ==
    /\ bytes = Layout(ls)
    /\ Len(bytes) = 4 * NonEmptyCount(ls) + (Len(ls) - NonEmptyCount(ls))

\* C6: encoded stream layout.  While encoding, the output file is the
\* concatenation of one record per line read so far (0x00 for an empty line,
\* the 4 hash bytes otherwise) and nothing else; the finished output is that
\* of all lines, of length 4 * non-empty lines + empty lines.
C6_StreamLayout ==
    /\ pc = "encode" => HasLayout(out, SubSeq(lines, 1, lpos))
    /\ have_out => HasLayout(out, lines)

\* C6 witness: ["foo", "", "tqt"] has been encoded to the 9 bytes
\* e20f0dd9 00 5acd9445.
C6_Witness ==
    /\ have_out
    /\ lines = <<"foo", "", "tqt">>
    /\ out = <<226, 15, 13, 217, 0, 90, 205, 148, 69>>

\* A step of the loop of decode_and_print.
DecodeStep == pc = "decode" /\ pc' = "decode"

\* The transitions of the decode state machine.
DecodeTransitions ==
    { <<"Start", "Done">>, <<"Start", "EmitBlank">>, <<"Start", "ReadRemaining3">>,
      <<"EmitBlank", "Start">>,
      <<"ReadRemaining3", "Error">>, <<"ReadRemaining3", "Lookup">>,
      <<"Lookup", "EmitOrWarn">>,
      <<"EmitOrWarn", "Start">> }

\* The stream ends in a non-marker byte followed by fewer than 3 bytes, its
\* records being read from the start: 1 byte if it is 0x00, else 4 bytes.
RECURSIVE Truncated(_)
Truncated(s) ==
    IF Len(s) = 0 THEN FALSE
    ELSE IF s[1] = 0 THEN Truncated(Tail(s))
    ELSE IF Len(s) < 4 THEN TRUE
    ELSE Truncated(SubSeq(s, 5, Len(s)))

\* Offset n of the stream is a record boundary.
RECURSIVE Boundary(_, _)
Boundary(s, n) ==
    IF n = 0 THEN TRUE
    ELSE IF Len(s) = 0 THEN FALSE
    ELSE IF s[1] = 0 THEN Boundary(Tail(s), n - 1)
    ELSE IF n < 4 \/ Len(s) < 4 THEN FALSE
    ELSE Boundary(SubSeq(s, 5, Len(s)), n - 4)

\* A measure of the work left to the decoder.
Rank(p) ==
    CASE p = "Start" -> 1
      [] p = "EmitBlank" -> 2
      [] p = "ReadRemaining3" -> 4
      [] p = "Lookup" -> 3
      [] p = "EmitOrWarn" -> 2
      [] OTHER -> 0
Measure(d) == 4 * (Len(stream) - d.rpos) + Rank(d.pc)

\* C7: decode state machine.  Every step of the decode loop is one of the
\* transitions Start -> Done | EmitBlank | ReadRemaining3, EmitBlank -> Start,
\* ReadRemaining3 -> Error | Lookup, Lookup -> EmitOrWarn, EmitOrWarn -> Start;
\* Start is only entered at a record boundary, leaving it consumes 1 byte and
\* the hash path 3 more; the work left decreases with every step, so the loop
\* ends; it ends in Done only with the stream exhausted at a record boundary
\* and in Error only when a non-marker byte is followed by fewer than 3 bytes.
C7_DecodeStateMachine ==
    [][DecodeStep =>
          /\ <<dec.pc, dec'.pc>> \in DecodeTransitions
          /\ stream' = stream
          /\ dec'.rpos - dec.rpos =
                CASE dec.pc = "Start" /\ dec'.pc # "Done" -> 1
                  [] dec.pc = "ReadRemaining3" /\ dec'.pc = "Lookup" -> 3
                  [] dec.pc = "ReadRemaining3" /\ dec'.pc = "Error" -> Len(stream) - dec.rpos
                  [] OTHER -> 0
          /\ Measure(dec') < Measure(dec)
          /\ Measure(dec') >= 0
          /\ dec'.pc = "Start" => Boundary(stream, dec'.rpos)
          /\ dec'.pc = "Done" => (dec'.rpos = Len(stream) /\ ~Truncated(stream))
          /\ dec'.pc = "Error" => /\ Truncated(stream)
                                  /\ dec.chunk # <<0>>
                                  /\ Len(stream) - dec.rpos < 3
      ]_vars

\* C7 witness: the loop has ended in Error after at least two records.
C7_Witness ==
    /\ pc = "decode"
    /\ dec.pc = "Error"
    /\ Len(dec.printed) >= 3

\* C8: truncated trailing record.  When fewer than 3 bytes follow a
\* non-marker byte, the decoder goes to Error and prints the truncation
\* warning after what it had printed, and nothing else; the lines printed are
\* those of decoding the stream without the cut-off record; once in Error the
\* loop takes no further step.
C8_TruncatedRecord ==
    [][ /\ (DecodeStep /\ dec.pc = "ReadRemaining3" /\ Len(stream) - dec.rpos < 3)
           => /\ dec'.pc = "Error"
              /\ dec'.printed = Append(dec.printed, TruncatedWarning)
              /\ Emitted(dec'.printed) = Emitted(dec.printed)
              /\ LET before == decode_loop(SubSeq(stream, 1, dec.rpos - 1), store,
                                           DecodeBegin)
                 IN /\ before.pc = "Done"
                    /\ before.printed = dec.printed
        /\ (pc = "decode" /\ dec.pc = "Error") => pc' # "decode"
      ]_vars

\* C8 witness: the stream e20f0dd9 00 0b1af4 has been decoded with "foo"
\* stored: "foo", a blank line, then the truncation warning.
C8_Witness ==
    /\ pc = "decode"
    /\ dec.pc = "Error"
    /\ stream = digest(xxh32("foo")) \o <<0>> \o SubSeq(digest(xxh32(Foreign)), 1, 3)
    /\ dec.printed = <<OutLine("foo"), OutLine(""), TruncatedWarning>>

RECURSIVE WithoutMissing(_, _)
WithoutMissing(s, st) ==
    IF Len(s) = 0 THEN <<>>
    ELSE IF s[1] = 0 THEN <<0>> \o WithoutMissing(Tail(s), st)
    ELSE IF Len(s) < 4 THEN s
    ELSE (IF bytes_hex(SubSeq(s, 1, 4)) \in DOMAIN st THEN SubSeq(s, 1, 4) ELSE <<>>)
         \o WithoutMissing(SubSeq(s, 5, Len(s)), st)

\* C10: missing hash on decode.  A 4-byte record whose hash is not in the
\* store makes the decoder print the warning naming that hash, print no line
\* and return to Start; when the loop ends, the lines printed are exactly
\* those printed for the stream with the missing records taken out, and the
\* loop ends the same way.
C10_MissingHash ==
    [][DecodeStep =>
          /\ (dec.pc = "EmitOrWarn" /\ dec.key \notin DOMAIN store)
                => /\ dec'.pc = "Start"
                   /\ dec.key = bytes_hex(dec.chunk)
                   /\ dec'.printed = Append(dec.printed, MissingWarning(dec.key))
                   /\ dec'.rpos = dec.rpos
          /\ dec'.pc \in {"Done", "Error"}
                => LET other == decode_loop(WithoutMissing(stream, store), store,
                                            DecodeBegin)
                   IN /\ other.pc = dec'.pc
                      /\ Emitted(other.printed) = Emitted(dec'.printed)
                      /\ other.printed =
                            SelectSeq(dec'.printed, LAMBDA e : e.kind # "missing")
      ]_vars

\* C10 witness: with "foo" stored, the stream e20f0dd9 0b1af42c e20f0dd9 has
\* been decoded to "foo", a warning for 0b1af42c, "foo".
C10_Witness ==
    /\ pc = "decode"
    /\ dec.pc = "Done"
    /\ dec.printed = <<OutLine("foo"), MissingWarning(hexdigest(xxh32(Foreign))),
                       OutLine("foo")>>

\* A step in which HashStore(db_path) is constructed: _load runs.
Construct == pc = "boot" /\ pc' # "boot"

\* C11: loading never fails fatally.  Constructing a HashStore on an absent
\* file gives an empty store; on a file that cannot be parsed (not gzip data,
\* or a blob cut short) it gives an empty store and prints the warning; in
\* neither case does the process end.
C11_LoadNeverFatal ==
    [][Construct =>
          /\ pc' # "exited"
          /\ db.kind = "absent" => (store' = EmptyStore /\ load_msg' = "none_found")
          /\ db.kind \in {"garbage", "truncated"}
                => (store' = EmptyStore /\ load_msg' = "warning")
      ]_vars

\* A step in which HashStore.save() writes the file.
SaveStep == pc = "main_save" /\ pc' = "main_end"

\* C12: persistence round trip.  A successful save leaves at db_path a blob
\* from which load gives exactly the mapping that was saved, whatever was at
\* the path before (nothing, a corrupt file, an older blob); the file is not
\* touched between that save and the next construction, and constructing a
\* HashStore on a saved blob loads it without warning.
C12_PersistenceRoundTrip ==
    [][ /\ SaveStep
           => /\ store' = store
              /\ db'.kind = "blob"
              /\ load_raises(db') = ""
              /\ load(db') = store
              /\ Len(db'.items) = size(store)
        /\ (pc \in {"main_end", "exited"}) => db' = db
        /\ (Construct /\ db.kind = "blob")
           => /\ pc' # "exited"
              /\ load_msg' = "loaded"
              /\ store' = load(db)
              /\ pickle_dump(store') = db.items
      ]_vars

\* C12 witness: a process that recovered from a corrupt file has saved a
\* store of two entries over it, and loading the file gives that store.
C12_Witness ==
    /\ pc = "main_end"
    /\ load_msg = "warning"
    /\ size(store) = 2
    /\ db.kind = "blob"
    /\ load(db) = store

\* C13: store write failure.  A process whose save of the store failed (the
\* failure was reported) has not ended with the success status 0.
C13_SaveFailureExits ==
    (pc = "exited" /\ error = "save_failed") => exit_code # 0

\* C14: a seed run whose glob pattern matches no files reports this, aborts
\* and exits with a non-zero status: once a run of the tool has reported
\* that no files were found, the process has ended, with a status other
\* than 0.
C14_SeedNoFilesExits ==
    (driver # "api" /\ error = "no_files_found") => (pc = "exited" /\ exit_code # 0)

\* C15: an encode run whose input file does not exist reports this, aborts
\* and exits with a non-zero status: once the missing input file has been
\* reported, the process has ended, with a status other than 0, without
\* going on to save the store.
C15_EncodeMissingInputExits ==
    error = "input_not_found" => (pc = "exited" /\ exit_code # 0)

\* seed_from_glob is running.
Seeding == pc \in {"seed_open", "seed_line"}

\* An iteration of the inner loop of seed_from_glob: one more line was read.
SeedLineStep == pc = "seed_line" /\ pc' = "seed_line"

\* C16: seeding counts.  Every line read, empty or not, adds one to the
\* lines-scanned count; the new-entries count goes up by one exactly in an
\* iteration whose add_item call returned True, which is exactly when the
\* store grew by one entry; no other step of the seeding changes the counts.
\* So at any point of a seeding, and when the counts are printed, the
\* new-entries count is the size of the store minus its size before the
\* seeding, and the lines-scanned count is at least the number of lines read
\* from the file at hand and at least the new-entries count.
C16_SeedingCounts ==
    [][ /\ SeedLineStep
           => /\ lines' = Append(lines, lines'[Len(lines')])
              /\ total_lines_processed' = total_lines_processed + 1
              /\ unique_lines_added' - unique_lines_added = size(store') - size(store)
              /\ unique_lines_added' - unique_lines_added =
                    (IF lines'[lpos'] # "" /\ last_add'.ret THEN 1 ELSE 0)
        /\ (Seeding /\ ~SeedLineStep /\ pc' \in {"seed_open", "seed_line"})
           => UNCHANGED <<total_lines_processed, unique_lines_added, store>>
        /\ (~Seeding /\ pc' = "seed_open")
           => (total_lines_processed' = 0 /\ unique_lines_added' = 0 /\ store' = store)
        /\ Seeding'
           => /\ unique_lines_added' = size(store') - size_before'
              /\ total_lines_processed' >= unique_lines_added'
              /\ pc' = "seed_line" => total_lines_processed' >= Len(lines')
      ]_vars

\* C16 witness: a seeding of an empty store over the lines "foo", "tqt" (one
\* file) and "foo" (the next file) is about to print its counts: 3 lines
\* scanned, 2 new entries, a store of size 2.
C16_Witness ==
    /\ pc = "seed_open"
    /\ files_left = 0
    /\ size_before = 0
    /\ lines = <<"foo">>
    /\ total_lines_processed = 3
    /\ unique_lines_added = 2
    /\ size(store) = 2
    /\ store[hexdigest(xxh32("foo"))] = "foo"
    /\ store[hexdigest(xxh32("tqt"))] = "tqt"

\* A step of a seeding, its start included.
SeedStep == Seeding \/ (CallPoint /\ pc' = "seed_open")

\* C17: seed is purely additive.  No step of a seeding removes or changes an
\* entry of the store or writes an encoded stream; an iteration over an empty
\* line makes no add_item call and changes nothing in the store; an iteration
\* over a non-empty line calls add_item with that line, and the store
\* afterwards is the store before plus the entry hash -> line if the hash was
\* absent, the store before otherwise; no other step of a seeding changes the
\* store.
C17_SeedAdditive ==
    [][SeedStep =>
          /\ \A k \in DOMAIN store : k \in DOMAIN store' /\ store'[k] = store[k]
          /\ out' = out /\ have_out' = have_out
          /\ ~SeedLineStep => store' = store
          /\ (SeedLineStep /\ lines'[lpos'] = "")
                => (last_add' = last_add /\ store' = store /\ warned' = warned)
          /\ (SeedLineStep /\ lines'[lpos'] # "")
                => LET line == lines'[lpos']
                       k == hexdigest(xxh32(line))
                   IN /\ last_add'.called /\ last_add'.text = line /\ last_add'.key = k
                      /\ store' = IF k \in DOMAIN store THEN store
                                  ELSE DictSet(store, k, line)
      ]_vars

\* C17 witness: a seeding of a store that held "foo" has read an empty line
\* and "tqt": "foo" is still stored, "tqt" was added, no stream was written.
C17_Witness ==
    /\ pc = "seed_line"
    /\ size_before = 1
    /\ lines = <<"", "tqt">>
    /\ DOMAIN store = {hexdigest(xxh32("foo")), hexdigest(xxh32("tqt"))}
    /\ store[hexdigest(xxh32("foo"))] = "foo"
    /\ store[hexdigest(xxh32("tqt"))] = "tqt"
    /\ out = <<>> /\ ~have_out

\* A step of a call of decode_and_print that does not end the process: the
\* start of the call, a step of its loop, its return.
DecodeCallStep ==
    \/ CallPoint /\ pc' = "decode"
    \/ pc = "decode" /\ pc' # "exited"

\* C18: decode is read-only on the store.  Every step of decode_and_print,
\* from its call to its return, leaves the in-memory mapping as it was, for
\* every stream, those with hashes missing from the store and those with a
\* truncated last record included; hence the mapping after the call equals
\* the mapping before it.
C18_DecodeReadOnly ==
    [][DecodeCallStep => store' = store]_vars

\* C18 witness: the loop has ended on a truncated record after the warning
\* for a hash not in the store, and the store holds its two lines.
C18_Witness ==
    /\ pc = "decode" /\ dec.pc = "Error"
    /\ src = "external"
    /\ dec.printed = <<MissingWarning(hexdigest(xxh32("cat"))), TruncatedWarning>>
    /\ DOMAIN store = {hexdigest(xxh32("foo")), hexdigest(xxh32("tqt"))}

\* C19: persistence happens only at the end of a run.  The store file is
\* written by no step but the save that main() calls last, and there is one
\* save per run: no add_item, seed, encode or decode step, no load and no
\* exit changes the file.  So as long as the run has not reached its save
\* the file holds what it held when the run started.
C19_SaveOnlyAtEnd ==
    [][/\ db' # db => pc = "main_save"
       /\ pc = "main_save" => pc' \in {"main_end", "exited"}
       /\ pc \in {"main_end", "exited"} => pc' \notin {"main_save", "main_end"} \/ pc' = pc
      ]_vars

\* C19 witness: a run that started with "foo" in the file inserted "tqt"
\* while encoding and stopped on an IOError before its save; the file still
\* holds just "foo".
C19_Witness ==
    /\ driver = "main"
    /\ pc = "exited" /\ exit_code = 1 /\ error = "io_error"
    /\ ~have_out
    /\ lines = <<"tqt">>
    /\ db.kind = "blob"
    /\ DOMAIN load(db) = {hexdigest(xxh32("foo"))}

\* The failures of the two kinds that end the process: an input that is not
\* found (text file, hash file, glob pattern without a match) and a store
\* that cannot be written.
FatalErrors ==
    {"input_not_found", "hash_file_not_found", "no_files_found", "save_failed"}

\* C20: only input-not-found and store-write-failure terminate the process.
\* A process that has ended with a non-zero status has ended on a failure of
\* one of these two kinds; in particular a corrupt store on load, a hash
\* collision, a truncated stream and a missing hash do not end it with an
\* error.
C20_OnlyFatalErrorsTerminate ==
    (pc = "exited" /\ exit_code # 0) => error \in FatalErrors

\* The offset in the encoded stream of the record of the i-th line.
Offset(ls, i) == Len(Layout(SubSeq(ls, 1, i - 1)))

\* A non-empty line whose hash starts with the byte 0x00.
ZeroLead(line) == line # "" /\ digest(xxh32(line))[1] = 0

\* C21: wire-format framing.  At the start of a record the decoder reads one
\* byte; the record is that byte alone (a blank line is printed and the next
\* record starts right after it) if and only if the byte is 0x00, otherwise
\* the record is that byte and the 3 bytes after it.  Consequently, where
\* encode wrote the hash of a non-empty line whose first hash byte is 0x00,
\* the decoder at that offset prints a blank line and starts its next record
\* with the second byte of that hash: the next 4-byte record is the last 3
\* hash bytes and the byte after them.
C21_Framing ==
    [][DecodeStep =>
          /\ (dec.pc = "Start" /\ dec.rpos < Len(stream))
                => /\ dec'.rpos = dec.rpos + 1
                   /\ dec'.pc = "EmitBlank" <=> stream[dec.rpos + 1] = 0
                   /\ dec'.pc = "ReadRemaining3" <=> stream[dec.rpos + 1] # 0
          /\ dec.pc = "EmitBlank"
                => /\ dec'.pc = "Start" /\ dec'.rpos = dec.rpos
                   /\ dec'.printed = Append(dec.printed, OutLine(""))
          /\ (dec.pc = "ReadRemaining3" /\ dec'.pc = "Lookup")
                => /\ dec'.rpos = dec.rpos + 3
                   /\ dec'.chunk = SubSeq(stream, dec.rpos, dec.rpos + 3)
                   /\ dec'.chunk[1] # 0
          /\ src = "encoded" =>
                \A i \in 1..Len(lines) : ZeroLead(lines[i]) =>
                   LET o == Offset(lines, i)
                       h == digest(xxh32(lines[i]))
                   IN /\ (dec.pc = "Start" /\ dec.rpos = o)
                            => (dec'.pc = "EmitBlank" /\ dec'.rpos = o + 1)
                      /\ (dec.pc = "EmitBlank" /\ dec.rpos = o + 1)
                            => (dec'.pc = "Start" /\ dec'.rpos = o + 1
                                /\ dec'.printed = Append(dec.printed, OutLine("")))
                      /\ (dec.pc = "Start" /\ dec.rpos = o + 1 /\ dec.chunk = <<0>>)
                            => (dec'.chunk = <<h[2]>> /\ dec'.rpos = o + 2)
                      /\ (dec.pc = "ReadRemaining3" /\ dec.rpos = o + 2
                             /\ dec'.pc = "Lookup")
                            => dec'.chunk = <<h[2], h[3], h[4], stream[o + 5]>>
      ]_vars

\* C21 witness: ["aqc", "foo"] was encoded to 00b5dac6 e20f0dd9 and decoded
\* as a blank line, the record b5dac6e2 (not in the store) and a truncated
\* record.
C21_Witness ==
    /\ pc = "decode" /\ dec.pc = "Error"
    /\ src = "encoded"
    /\ lines = <<"aqc", "foo">>
    /\ stream = <<0, 181, 218, 198, 226, 15, 13, 217>>
    /\ dec.printed = <<OutLine(""), MissingWarning(bytes_hex(<<181, 218, 198, 226>>)),
                       TruncatedWarning>>

\* The lines of the input file that are not empty once stripped.
c_Hashed == {i \in 1..Len(lines) : Len(strip(lines[i])) > 0}

\* C22: in collision_dedup_cli the hash is 4 bytes.  Every key of the store
\* is 8 hex characters long; an iteration of process_file over a non-empty
\* line appends exactly 4 bytes to the output, which rendered as hex are the
\* key the line is stored under; and the key the decode branch computes from
\* the 4 bytes of a record of the encoded file is the key of a line of the
\* input.
C22_FourByteHash ==
    [][ /\ \A k \in DOMAIN store' : Len(k) = 8
        /\ (pc = "encode" /\ pc' = "encode" /\ lpos' = lpos + 1
               /\ Len(strip(lines'[lpos'])) > 0)
              => /\ Len(out') = Len(out) + 4
                 /\ bytes_hex(Last(out', 4)) = generate_hash(lines'[lpos'])
                 /\ bytes_hex(Last(out', 4)) \in DOMAIN store'
        /\ (src = "encoded" /\ pc = "decode" /\ dec.pc = "Lookup" /\ dec'.pc = "EmitOrWarn")
              => /\ Len(dec'.key) = 8
                 /\ \E i \in c_Hashed : dec'.key = generate_hash(lines[i])
                 /\ dec'.key \in DOMAIN store
      ]_vars

\* An iteration of the seed loop or of the loop of process_file.
c_LineStep == pc \in {"seed_line", "encode"} /\ pc' = pc /\ lpos' = lpos + 1

\* C23: case normalization in the normalizing variant.  When a line is
\* processed whose hash is mapped to a line that differs from it only in
\* letter case, add_item returns False, the store keeps the first line and
\* no hash collision is reported for the pair.
C23_CaseMerged ==
    [][c_LineStep =>
          LET stripped_line == strip(lines'[lpos'])
              k == generate_hash(stripped_line)
          IN (/\ Len(stripped_line) > 0
              /\ k \in DOMAIN store
              /\ store[k] # stripped_line
              /\ lower(store[k]) = lower(stripped_line))
             => /\ ~c_add_item(store, k, stripped_line).ret
                /\ store' = store
                /\ CollisionWarning(k, store[k], stripped_line) \notin warned'
      ]_vars

\* The dicts an encode may start with: any of the hashes of the universe
\* mapped to a line of the universe that has this hash.
Stores ==
    LET Keys == {hexdigest(xxh32(t)) : t \in Text}
    IN { st \in UNION { [K -> Text] : K \in SUBSET Keys } :
            \A k \in DOMAIN st : hexdigest(xxh32(st[k])) = k }

\* C24: encode output does not depend on the store.  After every iteration
\* of the loop of process_and_encode the output file holds the bytes the
\* loop writes for the lines read so far when it is started with any other
\* dict, and so does the finished output for the whole input: the dict
\* decides which entries are added, never which bytes are written.
C24_OutputIndependentOfStore ==
    [][ /\ EncodeLineStep
              => \A st \in Stores : encode_file(st, lines') = out'
        /\ (pc = "encode" /\ have_out')
              => \A st \in Stores : encode_file(st, lines') = out'
      ]_vars

\* C24 witness: an encoding is done during which add_item found "foo" or
\* added it, refused "dluw" in favour of "tqt" and stored "aqc", and the
\* hashes of all three were written.
C24_Witness ==
    /\ have_out
    /\ pc \in {"main_save", "idle"}
    /\ lines = <<"foo", "dluw", "aqc">>
    /\ DOMAIN store = {hexdigest(xxh32("foo")), hexdigest(xxh32("tqt")),
                       hexdigest(xxh32("aqc"))}
    /\ store[hexdigest(xxh32("tqt"))] = "tqt"
    /\ CollisionWarning(hexdigest(xxh32("tqt")), "tqt", "dluw") \in warned
    /\ out = digest(xxh32("foo")) \o digest(xxh32("dluw")) \o digest(xxh32("aqc"))

\* The keys of the hashes written for the first n lines of the input.
WrittenKeys(n) == {hexdigest(xxh32(lines[i])) : i \in {j \in 1..n : lines[j] # ""}}

\* The run that encodes, from the first iteration of the loop to the end of
\* the process (for an API caller: as long as the encoded file is kept).
InEncodeRun ==
    \/ pc = "encode"
    \/ /\ have_out
       /\ IF driver = "main" THEN pc \in {"main_save", "main_end"} /\ src = "none"
                             ELSE pc # "exited"

\* The store is one that an encoding of the input ends with.
StoreOfEncode == \E st \in Stores : store = encode_store(st, lines)

\* C25: every reference encode emits is resolvable.  When an iteration writes
\* the 4 hash bytes of a non-empty line the hash is a key of the store, and
\* it stays one to the end of the run; the save of that run persists a store
\* with the key of every hash written; and when a decode of the encoded file
\* over a store the encoding ended with reads a 4-byte record at the offset
\* at which the hash of a line was written, it prints the line stored under
\* that hash and no missing-hash warning.
C25_ReferencesResolvable ==
    [][ /\ (EncodeLineStep /\ lines'[lpos'] # "")
              => hexdigest(xxh32(lines'[lpos'])) \in DOMAIN store'
        /\ InEncodeRun' => WrittenKeys(lpos)' \subseteq DOMAIN store'
        /\ (SaveStep /\ InEncodeRun)
              => WrittenKeys(Len(lines)) \subseteq DOMAIN load(db')
        /\ (src = "encoded" /\ pc = "decode" /\ dec.pc = "EmitOrWarn"
               /\ dec'.pc = "Start" /\ StoreOfEncode)
              => \A i \in 1..Len(lines) :
                    (lines[i] # "" /\ dec.rpos = Offset(lines, i) + 4)
                       => /\ dec.key = hexdigest(xxh32(lines[i]))
                          /\ dec.key \in DOMAIN store
                          /\ dec'.printed = Append(dec.printed, OutLine(store[dec.key]))
      ]_vars

\* C25 witness: a process has loaded the store that the encoding of
\* ["tqt", "foo"] persisted and has decoded the encoded file into these two
\* lines.
C25_Witness ==
    /\ driver = "main"
    /\ load_msg = "loaded"
    /\ pc = "decode" /\ dec.pc = "Done"
    /\ src = "encoded"
    /\ lines = <<"tqt", "foo">>
    /\ store = load(db)
    /\ StoreOfEncode
    /\ dec.printed = <<OutLine("tqt"), OutLine("foo")>>

====
